---- MODULE Spec2Model ----
(***************************************************************************)
(* Task ordering, hierarchy and dependency validation of the planning      *)
(* backend: the task routes (routes/tasks.ts), the zod request schemas     *)
(* (schemas/task.ts), the plan access gate (middleware/planAccess.ts) and  *)
(* the Task collection they write to.                                      *)
(*                                                                         *)
(* A request is handled in one step; req is the last request handled and   *)
(* resp the answer it got.  Where requests interleave, a request that has  *)
(* passed its reads waits in flight for its write.  users is the User      *)
(* collection (models/User.ts).                                            *)
(* Optional numbers of a payload are sequences of length 0 or 1, an absent *)
(* id is NoId, an absent string is Absent.                                 *)
(***************************************************************************)
EXTENDS Integers, Sequences, FiniteSets, TLC

VARIABLES tasks, nextId, plans, req, resp, users, flight

vars == <<tasks, nextId, plans, req, resp, users, flight>>

(***************************************************************************)
(* Bounds of the model.                                                    *)
(***************************************************************************)
\* ObjectIds that exist in the model: generated ones and client-chosen ones.
MaxIds == 2

Ids == 1..MaxIds
NoId == 0
\* An ObjectId that no task ever has.
GhostId == MaxIds + 1
Absent == "absent"
NoPlan == ""

Users == {"u1", "u2", "u3"}
PlanIds == {"P", "Q"}
Statuses == {"todo", "in_progress", "done"}
Priorities == {"low", "medium", "high", "urgent"}

Range(s) == {s[i] : i \in 1..Len(s)}

(***************************************************************************)
(* Plans (models/Plan.ts): an owner and a members list with roles.         *)
(***************************************************************************)
InitPlans ==
  [p \in PlanIds |->
     IF p = "P"
       THEN [name |-> "Alpha",
             owner_id |-> "u1",
             members |-> <<[user_id |-> "u2", role |-> "editor"],
                           [user_id |-> "u3", role |-> "viewer"]>>]
       ELSE [name |-> "Demo Plan",
             owner_id |-> "u3",
             members |-> <<[user_id |-> "u2", role |-> "editor"]>>]]

\* The registered users: each has an email, none is a placeholder.
EmailOf(u) ==
  CASE u = "u1" -> "u1@x"
    [] u = "u2" -> "u2@x"
    [] u = "u3" -> "u3@x"

InitUsers == [u \in Users |-> [email |-> EmailOf(u), is_placeholder |-> FALSE]]

roleHierarchy(role) ==
  CASE role = "owner" -> 3
    [] role = "editor" -> 2
    [] role = "viewer" -> 1
    [] OTHER -> 0

\* plan.members.find(m => m.user_id === user._id): the first match, or none.
FindMember(members, user) ==
  LET hits == {i \in 1..Len(members) : members[i].user_id = user}
  IN IF hits = {} THEN <<>>
     ELSE <<members[CHOOSE i \in hits : \A j \in hits : i <= j]>>

\* The role the gate gives the user in a plan that exists; "" when none.
userRoleIn(plan, user) ==
  IF plan.owner_id = user THEN "owner"
  ELSE LET m == FindMember(plan.members, user)
       IN IF m = <<>> THEN "" ELSE m[1].role

\* The plan id the gate reads: params, then query, then body.
GatePlanId(paramsPlan, queryPlan, bodyPlan) ==
  IF paramsPlan # NoPlan THEN paramsPlan
  ELSE IF queryPlan # NoPlan THEN queryPlan
  ELSE bodyPlan

\* requirePlanAccess(requiredRole): 0 when next() is called, else the status.
requirePlanAccess(requiredRole, paramsPlan, queryPlan, bodyPlan, user) ==
  LET plan_id == GatePlanId(paramsPlan, queryPlan, bodyPlan)
  IN IF plan_id = NoPlan THEN 400
     ELSE IF plan_id \notin DOMAIN plans THEN 404
     ELSE IF userRoleIn(plans[plan_id], user) = "" THEN 403
     ELSE IF roleHierarchy(userRoleIn(plans[plan_id], user))
               < roleHierarchy(requiredRole) THEN 403
     ELSE 0

(***************************************************************************)
(* Dates: ISO strings, compared after new Date(...).                       *)
(***************************************************************************)
DateStrings == {"2024-01-01", "2024-01-15", "soon"}

\* new Date(s) is a valid date exactly for the ISO strings.
IsValidDate(s) == s \in {"2024-01-01", "2024-01-15"}

\* new Date(s).getTime() in days since the epoch, for a valid s.
DateValue(s) ==
  CASE s = "2024-01-01" -> 19723
    [] s = "2024-01-15" -> 19737
    [] OTHER -> 0

\* new Date(due) >= new Date(start): false as soon as one side is NaN.
DateGE(due, start) ==
  /\ IsValidDate(due)
  /\ IsValidDate(start)
  /\ DateValue(due) >= DateValue(start)

\* Mutant: any string is a status.
statusEnum_any(v) == TRUE

\* enum ["todo", "in_progress", "done"]
statusEnum(v) == v \in Statuses

\* enum ["low", "medium", "high", "urgent"]
priorityEnum(v) == v \in Priorities

\* min 0, max 100
progressRange(n) == 0 <= n /\ n <= 100

\* taskBaseSchema on the fields carried here: title min(1), the enums of
\* status and priority, progress_pct in 0..100, estimate_hours min(0).
taskBaseOK(data) ==
  /\ data.title # ""
  /\ statusEnum(data.status)
  /\ data.priority = Absent \/ priorityEnum(data.priority)
  /\ Len(data.progress_pct) = 0 \/ progressRange(data.progress_pct[1])
  /\ Len(data.estimate_hours) = 0 \/ data.estimate_hours[1] >= 0

\* taskBaseSchema.partial(): the same checks on the fields that are there.
taskUpdateOK(data) ==
  /\ Len(data.status) = 0 \/ statusEnum(data.status[1])
  /\ data.priority = Absent \/ priorityEnum(data.priority)
  /\ Len(data.progress_pct) = 0 \/ progressRange(data.progress_pct[1])

\* The validators of TaskSchema that save() and insertMany() run.
TaskValidates(t) ==
  /\ t.title # ""
  /\ statusEnum(t.status)
  /\ priorityEnum(t.priority)
  /\ progressRange(t.progress_pct)

\* Mutant: the schema without its refinement.
taskSchemaRefine_none(data) == TRUE

\* The refinement of taskSchema; false means an issue on path ["due_date"].
taskSchemaRefine(data) ==
  IF data.start_date # Absent /\ data.due_date # Absent
    THEN DateGE(data.due_date, data.start_date)
    ELSE TRUE

(***************************************************************************)
(* The Task collection.                                                    *)
(***************************************************************************)
TaskIds == DOMAIN tasks

InPlan(plan_id) == {t \in TaskIds : tasks[t].plan_id = plan_id}

\* Mutant: the lookup names the _id only.
FindInPlan_anyPlan(id, plan_id) == id \in TaskIds

\* Task.findOne({ _id, plan_id }) finds something.
FindInPlan(id, plan_id) == id \in TaskIds /\ tasks[id].plan_id = plan_id

\* Task.find({ _id: { $in: ids }, plan_id }).length
CountInPlan(ids, plan_id) ==
  Cardinality({t \in InPlan(plan_id) : t \in Range(ids)})

\* Mutant: the size of the partition instead of its largest order_index.
MaxOrderOrZero_count(plan_id, status) ==
  Cardinality({t \in InPlan(plan_id) : tasks[t].status = status})

\* Task.findOne({ plan_id, status }).sort({ order_index: -1 })?.order_index || 0
MaxOrderOrZero(plan_id, status) ==
  LET part == {t \in InPlan(plan_id) : tasks[t].status = status}
  IN IF part = {} THEN 0
     ELSE LET top == CHOOSE t \in part :
                       \A u \in part : tasks[u].order_index <= tasks[t].order_index
          IN IF tasks[top].order_index # 0 THEN tasks[top].order_index ELSE 0

\* The order_index a created task is saved with.
AssignOrderIndex(body) ==
  IF Len(body.order_index) = 0
    THEN MaxOrderOrZero(body.plan_id, body.status) + 1
    ELSE body.order_index[1]

\* new Task(taskData) of Create, as saved.
NewTask(body, user) ==
  [plan_id |-> body.plan_id,
   status |-> body.status,
   order_index |-> AssignOrderIndex(body),
   parent_id |-> body.parent_id,
   dependency_ids |-> body.dependency_ids,
   start_date |-> body.start_date,
   due_date |-> body.due_date,
   title |-> body.title,
   priority |-> IF body.priority = Absent THEN "medium" ELSE body.priority,
   tags |-> body.tags,
   assignee_ids |-> body.assignee_ids,
   estimate_hours |-> body.estimate_hours,
   progress_pct |-> IF Len(body.progress_pct) = 0 THEN 0 ELSE body.progress_pct[1],
   created_by |-> user,
   updated_by |-> user]

\* A request: the operation, the authenticated user, ?plan_id= of the query
\* string (NoPlan if none), the :id of the path (NoId if none) and the body.
Request(op, user, queryPlan, id, body) ==
  [op |-> op, user |-> user, query |-> queryPlan, id |-> id, body |-> body]

\* An answer: the HTTP status, the error (if any) and the task created.
Reply(code, error, id) == [code |-> code, error |-> error, id |-> id]

Reject(code, error) ==
  /\ resp' = Reply(code, error, NoId)
  /\ UNCHANGED <<tasks, nextId, plans, users, flight>>

\* validateRequest(z.object({ body: schema })): 0 when next() is called.
validateRequest(schemaOK) == IF schemaOK THEN 0 ELSE 400

(***************************************************************************)
(* POST /tasks                                                             *)
(***************************************************************************)
CreateParentOK(body) ==
  body.parent_id = NoId \/ FindInPlan(body.parent_id, body.plan_id)

CreateDepsOK(body) ==
  \/ Len(body.dependency_ids) = 0
  \/ CountInPlan(body.dependency_ids, body.plan_id) = Len(body.dependency_ids)

Create(user, queryPlan, body) ==
  /\ req' = Request("create", user, queryPlan, NoId, body)
  /\ LET gate == requirePlanAccess("editor", NoPlan, queryPlan, body.plan_id, user)
     IN IF validateRequest(taskBaseOK(body)) # 0 THEN Reject(400, "body")
        ELSE IF validateRequest(taskSchemaRefine(body)) # 0
          THEN Reject(400, "due_date")
        ELSE IF gate # 0 THEN Reject(gate, "access")
        ELSE IF ~CreateParentOK(body) THEN Reject(400, "parent")
        ELSE IF ~CreateDepsOK(body) THEN Reject(400, "dependencies")
        ELSE IF ~TaskValidates(NewTask(body, user)) THEN Reject(500, "storage")
        ELSE /\ nextId <= MaxIds
             /\ tasks' = [t \in TaskIds \cup {nextId} |->
                            IF t = nextId THEN NewTask(body, user) ELSE tasks[t]]
             /\ nextId' = nextId + 1
             /\ resp' = Reply(201, "", nextId)
             /\ UNCHANGED <<plans, users, flight>>

(***************************************************************************)
(* PATCH /tasks/:id?plan_id=...   A field the partial body does not carry  *)
(* is NoId, Absent or an empty sequence; dependency_ids, when carried, is  *)
(* a one-element sequence holding the list.  A body may also carry keys    *)
(* the schema does not have (plan_id).                                     *)
(***************************************************************************)
\* Mutant: the update schema keeps plan_id.
taskUpdateSchemaParse_keepPlan(raw) == raw

\* taskUpdateSchema.parse(raw): taskBaseSchema.partial().omit({ plan_id }), a
\* zod object, which drops the keys it does not declare.
taskUpdateSchemaParse(raw) == [f \in DOMAIN raw \ {"plan_id"} |-> raw[f]]

\* The body the gate and the handler see after validateRequest: the parsed one.
validatedBody(raw, parsed) == parsed

\* req.body.plan_id, NoPlan when the body has none.
BodyPlan(body) == IF "plan_id" \in DOMAIN body THEN body.plan_id ELSE NoPlan

UpdateParentOK(id, body) ==
  \/ body.parent_id = NoId
  \/ FindInPlan(body.parent_id, tasks[id].plan_id)

UpdateDepsOK(id, body) ==
  \/ Len(body.dependency_ids) = 0
  \/ Len(body.dependency_ids[1]) = 0
  \/ CountInPlan(body.dependency_ids[1], tasks[id].plan_id)
       = Len(body.dependency_ids[1])

\* Mutant: a task that changes status goes to the front of its new partition.
Merge_renumber(task, body, user) ==
  [task EXCEPT
     !.status = IF Len(body.status) = 0 THEN @ ELSE body.status[1],
     !.order_index = IF Len(body.status) = 1 /\ body.status[1] # task.status
                       THEN 0
                       ELSE IF Len(body.order_index) = 0 THEN @
                       ELSE body.order_index[1],
     !.updated_by = user]

\* Mutant: the status of the body is not written.
Merge_keepStatus(task, body, user) ==
  [task EXCEPT
     !.order_index = IF Len(body.order_index) = 0 THEN @ ELSE body.order_index[1],
     !.updated_by = user]

\* Object.assign(task, req.body); task.updated_by = req.user._id
Merge(task, body, user) ==
  [task EXCEPT
     !.plan_id = IF BodyPlan(body) = NoPlan THEN @ ELSE body.plan_id,
     !.status = IF Len(body.status) = 0 THEN @ ELSE body.status[1],
     !.order_index = IF Len(body.order_index) = 0 THEN @ ELSE body.order_index[1],
     !.parent_id = IF body.parent_id = NoId THEN @ ELSE body.parent_id,
     !.dependency_ids =
        IF Len(body.dependency_ids) = 0 THEN @ ELSE body.dependency_ids[1],
     !.start_date = IF body.start_date = Absent THEN @ ELSE body.start_date,
     !.due_date = IF body.due_date = Absent THEN @ ELSE body.due_date,
     !.priority = IF body.priority = Absent THEN @ ELSE body.priority,
     !.progress_pct = IF Len(body.progress_pct) = 0 THEN @ ELSE body.progress_pct[1],
     !.updated_by = user]

Update(user, queryPlan, id, body) ==
  /\ req' = Request("update", user, queryPlan, id, body)
  /\ LET data == validatedBody(body, taskUpdateSchemaParse(body))
         gate == requirePlanAccess("editor", NoPlan, queryPlan, BodyPlan(data), user)
     IN IF validateRequest(taskUpdateOK(body)) # 0 THEN Reject(400, "body")
        ELSE IF gate # 0 THEN Reject(gate, "access")
        ELSE IF ~FindInPlan(id, queryPlan) THEN Reject(404, "task")
        ELSE IF ~UpdateParentOK(id, data) THEN Reject(400, "parent")
        ELSE IF ~UpdateDepsOK(id, data) THEN Reject(400, "dependencies")
        ELSE IF ~TaskValidates(Merge(tasks[id], data, user))
          THEN Reject(500, "storage")
        ELSE /\ tasks' = [tasks EXCEPT ![id] = Merge(@, data, user)]
             /\ resp' = Reply(200, "", NoId)
             /\ UNCHANGED <<nextId, plans, users, flight>>

(***************************************************************************)
(* DELETE /tasks/:id?plan_id=...                                           *)
(***************************************************************************)
\* Mutant: the check for subtasks is left out.
hasChildren_unchecked(id) == FALSE

\* Task.findOne({ parent_id: req.params.id }) finds something.
hasChildren(id) == \E t \in TaskIds : tasks[t].parent_id = id

Delete(user, queryPlan, id) ==
  /\ req' = Request("delete", user, queryPlan, id, <<>>)
  /\ LET gate == requirePlanAccess("editor", NoPlan, queryPlan, NoPlan, user)
     IN IF gate # 0 THEN Reject(gate, "access")
        ELSE IF ~FindInPlan(id, queryPlan) THEN Reject(404, "task")
        ELSE IF hasChildren(id) THEN Reject(400, "subtasks")
        ELSE /\ tasks' = [t \in TaskIds \ {id} |-> tasks[t]]
             /\ resp' = Reply(200, "", NoId)
             /\ UNCHANGED <<nextId, plans, users, flight>>

(***************************************************************************)
(* POST /tasks/reorder                                                     *)
(***************************************************************************)
\* Mutant: positions counted from 0.
RECURSIVE ApplyReorder_zeroBased(_, _, _, _, _)
ApplyReorder_zeroBased(ts, task_ids, plan_id, user, index) ==
  IF index > Len(task_ids) THEN ts
  ELSE LET id == task_ids[index]
           hit == id \in DOMAIN ts /\ ts[id].plan_id = plan_id
           next == IF hit
                     THEN [ts EXCEPT ![id].order_index = index - 1,
                                     ![id].updated_by = user]
                     ELSE ts
       IN ApplyReorder_zeroBased(next, task_ids, plan_id, user, index + 1)

\* Mutant: the filter of an updateOne names the _id only, not the plan.
RECURSIVE ApplyReorder_anyPlan(_, _, _, _, _)
ApplyReorder_anyPlan(ts, task_ids, plan_id, user, index) ==
  IF index > Len(task_ids) THEN ts
  ELSE LET id == task_ids[index]
           hit == id \in DOMAIN ts
           next == IF hit
                     THEN [ts EXCEPT ![id].order_index = index,
                                     ![id].updated_by = user]
                     ELSE ts
       IN ApplyReorder_anyPlan(next, task_ids, plan_id, user, index + 1)

\* The updateOne operations of the bulkWrite, applied in order to ts.
RECURSIVE ApplyReorder(_, _, _, _, _)
ApplyReorder(ts, task_ids, plan_id, user, index) ==
  IF index > Len(task_ids) THEN ts
  ELSE LET id == task_ids[index]
           hit == id \in DOMAIN ts /\ ts[id].plan_id = plan_id
           next == IF hit
                     THEN [ts EXCEPT ![id].order_index = index,
                                     ![id].updated_by = user]
                     ELSE ts
       IN ApplyReorder(next, task_ids, plan_id, user, index + 1)

Reorder(user, queryPlan, body) ==
  /\ req' = Request("reorder", user, queryPlan, NoId, body)
  /\ LET gate == requirePlanAccess("editor", NoPlan, queryPlan, body.plan_id, user)
     IN IF gate # 0 THEN Reject(gate, "access")
        ELSE /\ tasks' = ApplyReorder(tasks, body.task_ids, body.plan_id, user, 1)
             /\ resp' = Reply(200, "", NoId)
             /\ UNCHANGED <<nextId, plans, users, flight>>

(***************************************************************************)
(* POST /tasks/bulk   An item may carry a client-chosen _id (NoId if not). *)
(***************************************************************************)
\* tasks.some(t => t._id === taskData.parent_id) || Task.findOne({ _id, plan_id })
parentExists(items, item, plan_id) ==
  \/ \E i \in 1..Len(items) : items[i]._id = item.parent_id
  \/ FindInPlan(item.parent_id, plan_id)

\* tasks.filter(t => taskData.dependency_ids.includes(t._id)).length
validDeps(items, item) ==
  Cardinality({i \in 1..Len(items) : items[i]._id \in Range(item.dependency_ids)})

\* The validation loop accepts the item.
BulkItemOK(items, item, plan_id) ==
  /\ item.parent_id # NoId => parentExists(items, item, plan_id)
  /\ Len(item.dependency_ids) > 0 =>
       validDeps(items, item) + CountInPlan(item.dependency_ids, plan_id)
         = Len(item.dependency_ids)

MaxOf(S) == IF S = {} THEN 0 ELSE CHOOSE x \in S : \A y \in S : y <= x

\* The _id of each document handed to insertMany: the client's, or a fresh one.
DocIds(items) ==
  LET given == {items[i]._id : i \in 1..Len(items)} \ {NoId}
      base == MaxOf(given \cup {nextId - 1})
      fresh(i) == Cardinality({j \in 1..i : items[j]._id = NoId})
  IN [i \in 1..Len(items) |->
        IF items[i]._id # NoId THEN items[i]._id ELSE base + fresh(i)]

\* { ...taskData, plan_id, created_by: userId, updated_by: userId }, cast by the
\* Task schema (order_index defaults to 0).
BulkDoc(item, plan_id, user) ==
  [plan_id |-> plan_id,
   status |-> item.status,
   order_index |-> IF Len(item.order_index) = 0 THEN 0 ELSE item.order_index[1],
   parent_id |-> item.parent_id,
   dependency_ids |-> item.dependency_ids,
   start_date |-> item.start_date,
   due_date |-> item.due_date,
   title |-> item.title,
   priority |-> IF item.priority = Absent THEN "medium" ELSE item.priority,
   tags |-> item.tags,
   assignee_ids |-> item.assignee_ids,
   estimate_hours |-> item.estimate_hours,
   progress_pct |-> IF Len(item.progress_pct) = 0 THEN 0 ELSE item.progress_pct[1],
   created_by |-> user,
   updated_by |-> user]

\* Task.insertMany(docs), ordered: the number of documents written before the
\* first duplicate _id stops the insert (all of them when there is none).
InsertedCount(ids) ==
  LET dup(i) == ids[i] \in TaskIds \/ \E j \in 1..(i - 1) : ids[j] = ids[i]
      bad == {i \in 1..Len(ids) : dup(i)}
  IN IF bad = {} THEN Len(ids)
     ELSE (CHOOSE i \in bad : \A j \in bad : i <= j) - 1

BulkCreate(user, queryPlan, body) ==
  /\ req' = Request("bulk", user, queryPlan, NoId, body)
  /\ LET gate == requirePlanAccess("editor", NoPlan, queryPlan, body.plan_id, user)
         items == body.tasks
         ids == DocIds(items)
         n == InsertedCount(ids)
     IN IF validateRequest(\A i \in 1..Len(items) : taskBaseOK(items[i])) # 0
          THEN Reject(400, "body")
        ELSE IF gate # 0 THEN Reject(gate, "access")
        ELSE IF \E i \in 1..Len(items) : ~BulkItemOK(items, items[i], body.plan_id)
          THEN Reject(400, "reference")
        ELSE IF \E i \in 1..Len(items) :
                  ~TaskValidates(BulkDoc(items[i], body.plan_id, user))
          THEN Reject(500, "storage")
        ELSE /\ \A i \in 1..Len(items) : ids[i] <= MaxIds
             /\ tasks' = [t \in TaskIds \cup {ids[i] : i \in 1..n} |->
                            IF t \in TaskIds THEN tasks[t]
                            ELSE LET i == CHOOSE k \in 1..n : ids[k] = t
                                 IN BulkDoc(items[i], body.plan_id, user)]
             /\ nextId' = MaxOf(Range(ids) \cup {nextId - 1}) + 1
             /\ resp' = IF n = Len(items) THEN Reply(201, "", NoId)
                        ELSE Reply(500, "storage", NoId)
             /\ UNCHANGED <<plans, users, flight>>

(***************************************************************************)
(* GET /tasks?plan_id=...&sort=...&order=...&page=...&limit=...            *)
(***************************************************************************)
\* The place of a status among the strings, as the store compares them.
StatusRank(status) ==
  CASE status = "done" -> 1
    [] status = "in_progress" -> 2
    [] status = "todo" -> 3
    [] OTHER -> 0

\* The value of a sort field of a task, as a number.
SortValue(task, field) ==
  IF field = "status" THEN StatusRank(task.status) ELSE task.order_index

\* Mutant: status follows the requested direction too.
sortObj_statusFollows(sort, order) ==
  LET dir == IF order = "desc" THEN -1 ELSE 1
  IN IF sort = "order_index"
       THEN <<[field |-> "status", dir |-> dir], [field |-> "order_index", dir |-> dir]>>
       ELSE <<[field |-> sort, dir |-> dir]>>

\* sortObj: the keys in the order they are set, each with its direction.
sortObj(sort, order) ==
  LET dir == IF order = "desc" THEN -1 ELSE 1
  IN IF sort = "order_index"
       THEN <<[field |-> "status", dir |-> 1], [field |-> "order_index", dir |-> dir]>>
       ELSE <<[field |-> sort, dir |-> dir]>>

\* .sort(keys): -1, 0 or 1 as x goes before, with or after y.
RECURSIVE SortCompare(_, _, _)
SortCompare(x, y, keys) ==
  IF keys = <<>> THEN 0
  ELSE LET k == Head(keys)
           a == SortValue(tasks[x], k.field) * k.dir
           b == SortValue(tasks[y], k.field) * k.dir
       IN IF a < b THEN -1
          ELSE IF a > b THEN 1
          ELSE SortCompare(x, y, Tail(keys))

\* The orders in which the store may hold the documents of ids.
NaturalOrders(ids) ==
  {l \in [1..Cardinality(ids) -> ids] : \A i, j \in DOMAIN l : i # j => l[i] # l[j]}

\* Task.find(query).sort(keys): documents with equal keys in the order the
\* store holds them.
Sorted(natural, keys) ==
  LET pos(x) == CHOOSE i \in DOMAIN natural : natural[i] = x
      before(x, y) ==
        \/ SortCompare(x, y, keys) < 0
        \/ SortCompare(x, y, keys) = 0 /\ pos(x) < pos(y)
      rank(x) == 1 + Cardinality({y \in Range(natural) : before(y, x)})
  IN [i \in DOMAIN natural |-> CHOOSE x \in Range(natural) : rank(x) = i]

\* .skip(skip).limit(limit)
Page(list, skip, limit) ==
  LET last == IF skip + limit < Len(list) THEN skip + limit ELSE Len(list)
  IN [i \in 1..(IF last > skip THEN last - skip ELSE 0) |-> list[skip + i]]

\* The answer of a listing: the tasks of the page, by _id, and the total.
ListReply(list, total) ==
  [code |-> 200, error |-> "", id |-> NoId, tasks |-> list, total |-> total]

List(user, queryPlan, sort, order, page, limit, natural) ==
  /\ req' = Request("list", user, queryPlan, NoId,
                    [sort |-> sort, order |-> order, page |-> page, limit |-> limit])
  /\ LET gate == requirePlanAccess("viewer", NoPlan, queryPlan, NoPlan, user)
     IN IF gate # 0 THEN Reject(gate, "access")
        ELSE IF queryPlan = NoPlan THEN Reject(400, "plan_id")
        ELSE /\ natural \in NaturalOrders(InPlan(queryPlan))
             /\ resp' = ListReply(Page(Sorted(natural, sortObj(sort, order)),
                                       (page - 1) * limit, limit),
                                  Cardinality(InPlan(queryPlan)))
             /\ UNCHANGED <<tasks, nextId, plans, users, flight>>

(***************************************************************************)
(* Interleaved requests.  The handlers await every storage call, and       *)
(* nothing serializes two requests: a POST /tasks that has passed the      *)
(* gate, the reference checks and the read of the largest order_index      *)
(* waits in flight for its save, and DELETE /plans/:plan_id runs its gate, *)
(* its deleteMany and its findByIdAndDelete as three steps.                *)
(***************************************************************************)
Slots == {"a", "b"}

\* flight without the slot.
Landed(slot) == [s \in DOMAIN flight \ {slot} |-> flight[s]]

\* flight with the slot holding rec.
Waiting(slot, rec) ==
  [s \in DOMAIN flight \cup {slot} |-> IF s = slot THEN rec ELSE flight[s]]

\* The creates that wait for their save.
PendingCreates == {s \in DOMAIN flight : flight[s].op = "create"}

\* POST /tasks up to and including the read of the largest order_index.
CreateBegin(slot, user, queryPlan, body) ==
  /\ slot \notin DOMAIN flight
  /\ req' = Request("create", user, queryPlan, NoId, body)
  /\ LET gate == requirePlanAccess("editor", NoPlan, queryPlan, body.plan_id, user)
     IN IF validateRequest(taskBaseOK(body)) # 0 THEN Reject(400, "body")
        ELSE IF validateRequest(taskSchemaRefine(body)) # 0
          THEN Reject(400, "due_date")
        ELSE IF gate # 0 THEN Reject(gate, "access")
        ELSE IF ~CreateParentOK(body) THEN Reject(400, "parent")
        ELSE IF ~CreateDepsOK(body) THEN Reject(400, "dependencies")
        ELSE /\ nextId + Cardinality(PendingCreates) <= MaxIds
             /\ flight' = Waiting(slot, [op |-> "create", user |-> user,
                                         query |-> queryPlan, body |-> body,
                                         order_index |-> AssignOrderIndex(body)])
             /\ resp' = Reply(0, "", NoId)
             /\ UNCHANGED <<tasks, nextId, plans, users>>

\* Mutant: the largest order_index is read again when the task is saved.
SavedOrderIndex_reread(rec) == AssignOrderIndex(rec.body)

\* taskData.order_index as new Task(taskData) gets it: the value set before.
SavedOrderIndex(rec) == rec.order_index

\* new Task(taskData); task.save() of a POST /tasks in flight.
CreateSave(slot) ==
  /\ slot \in PendingCreates
  /\ LET rec == flight[slot]
         taskData == [rec.body EXCEPT !.order_index = <<SavedOrderIndex(rec)>>]
     IN /\ req' = Request("create", rec.user, rec.query, NoId, rec.body)
        /\ IF ~TaskValidates(NewTask(taskData, rec.user))
             THEN /\ resp' = Reply(500, "storage", NoId)
                  /\ UNCHANGED <<tasks, nextId>>
             ELSE /\ tasks' = [t \in TaskIds \cup {nextId} |->
                                 IF t = nextId THEN NewTask(taskData, rec.user)
                                 ELSE tasks[t]]
                  /\ nextId' = nextId + 1
                  /\ resp' = Reply(201, "", nextId)
        /\ flight' = Landed(slot)
        /\ UNCHANGED <<plans, users>>

\* DELETE /plans/:plan_id: the gate.
DeletePlanAdmit(slot, user, plan_id) ==
  /\ slot \notin DOMAIN flight
  /\ req' = Request("deletePlan", user, NoPlan, NoId, [plan_id |-> plan_id])
  /\ LET gate == requirePlanAccess("owner", plan_id, NoPlan, NoPlan, user)
     IN IF gate # 0 THEN Reject(gate, "access")
        ELSE /\ flight' = Waiting(slot, [op |-> "deletePlan", user |-> user,
                                         plan_id |-> plan_id, step |-> "tasks"])
             /\ resp' = Reply(0, "", NoId)
             /\ UNCHANGED <<tasks, nextId, plans, users>>

\* Task.deleteMany({ plan_id })
DeletePlanTasks(slot) ==
  /\ slot \in DOMAIN flight
  /\ flight[slot].op = "deletePlan"
  /\ flight[slot].step = "tasks"
  /\ tasks' = [t \in TaskIds \ InPlan(flight[slot].plan_id) |-> tasks[t]]
  /\ flight' = [flight EXCEPT ![slot].step = "plan"]
  /\ UNCHANGED <<nextId, plans, users, req, resp>>

\* Plan.findByIdAndDelete(plan_id) and the answer.
DeletePlanDoc(slot) ==
  /\ slot \in DOMAIN flight
  /\ flight[slot].op = "deletePlan"
  /\ flight[slot].step = "plan"
  /\ LET rec == flight[slot]
     IN /\ req' = Request("deletePlan", rec.user, NoPlan, NoId,
                          [plan_id |-> rec.plan_id])
        /\ plans' = [p \in DOMAIN plans \ {rec.plan_id} |-> plans[p]]
        /\ resp' = Reply(200, "", NoId)
        /\ flight' = Landed(slot)
        /\ UNCHANGED <<tasks, nextId, users>>

\* DELETE /tasks/:id up to and including the check for subtasks.
DeleteBegin(slot, user, queryPlan, id) ==
  /\ slot \notin DOMAIN flight
  /\ req' = Request("delete", user, queryPlan, id, <<>>)
  /\ LET gate == requirePlanAccess("editor", NoPlan, queryPlan, NoPlan, user)
     IN IF gate # 0 THEN Reject(gate, "access")
        ELSE IF ~FindInPlan(id, queryPlan) THEN Reject(404, "task")
        ELSE IF hasChildren(id) THEN Reject(400, "subtasks")
        ELSE /\ flight' = Waiting(slot, [op |-> "delete", user |-> user,
                                         query |-> queryPlan, id |-> id])
             /\ resp' = Reply(0, "", NoId)
             /\ UNCHANGED <<tasks, nextId, plans, users>>

\* Task.findByIdAndDelete(req.params.id) and the answer.
DeleteLand(slot) ==
  /\ slot \in DOMAIN flight
  /\ flight[slot].op = "delete"
  /\ LET rec == flight[slot]
     IN /\ req' = Request("delete", rec.user, rec.query, rec.id, <<>>)
        /\ tasks' = [t \in TaskIds \ {rec.id} |-> tasks[t]]
        /\ resp' = Reply(200, "", NoId)
        /\ flight' = Landed(slot)
        /\ UNCHANGED <<nextId, plans, users>>

(***************************************************************************)
(* Plans and users (routes/plans.ts, routes/auth.ts).                      *)
(***************************************************************************)
\* The ids the store gives to new plans and new users, in this order.
FreshPlanIds == <<"R", "S">>
FreshUserIds == <<"n1", "n2">>

NewPlanId == FreshPlanIds[1 + Cardinality(DOMAIN plans \ PlanIds)]
NewUserId(us) == FreshUserIds[1 + Cardinality(DOMAIN us \ Users)]

\* POST /plans
CreatePlan(user, name) ==
  /\ req' = Request("createPlan", user, NoPlan, NoId, [name |-> name])
  /\ IF validateRequest(name # "") # 0 THEN Reject(400, "name")
     ELSE /\ Cardinality(DOMAIN plans \ PlanIds) < Len(FreshPlanIds)
          /\ plans' = [p \in DOMAIN plans \cup {NewPlanId} |->
                          IF p = NewPlanId
                            THEN [name |-> name, owner_id |-> user, members |-> <<>>]
                            ELSE plans[p]]
          /\ resp' = Reply(201, "", NoId)
          /\ UNCHANGED <<tasks, nextId, users, flight>>

\* POST /plans/:plan_id/members
AddMember(user, plan_id, user_id, role) ==
  /\ req' = Request("addMember", user, NoPlan, NoId,
                    [plan_id |-> plan_id, user_id |-> user_id, role |-> role])
  /\ LET gate == requirePlanAccess("owner", plan_id, NoPlan, NoPlan, user)
     IN IF gate # 0 THEN Reject(gate, "access")
        ELSE IF user_id \notin DOMAIN users THEN Reject(404, "user")
        ELSE IF plans[plan_id].owner_id = user_id THEN Reject(400, "owner")
        ELSE IF FindMember(plans[plan_id].members, user_id) # <<>>
          THEN Reject(400, "member")
        ELSE /\ plans' = [plans EXCEPT ![plan_id].members =
                            Append(@, [user_id |-> user_id, role |-> role])]
             /\ resp' = Reply(200, "", NoId)
             /\ UNCHANGED <<tasks, nextId, users, flight>>

\* plan.members.filter(m => m.user_id.toString() !== user_id)
WithoutMember(members, user_id) ==
  LET keep(m) == m.user_id # user_id IN SelectSeq(members, keep)

\* DELETE /plans/:plan_id/members/:user_id
RemoveMember(user, plan_id, user_id) ==
  /\ req' = Request("removeMember", user, NoPlan, NoId,
                    [plan_id |-> plan_id, user_id |-> user_id])
  /\ LET gate == requirePlanAccess("owner", plan_id, NoPlan, NoPlan, user)
     IN IF gate # 0 THEN Reject(gate, "access")
        ELSE /\ plans' = [plans EXCEPT ![plan_id].members = WithoutMember(@, user_id)]
             /\ resp' = Reply(200, "", NoId)
             /\ UNCHANGED <<tasks, nextId, users, flight>>

\* member.role = role, for the member plan.members.find(...) returns
WithRole(members, user_id, role) ==
  LET hits == {i \in 1..Len(members) : members[i].user_id = user_id}
      first == CHOOSE i \in hits : \A j \in hits : i <= j
  IN [members EXCEPT ![first].role = role]

\* PATCH /plans/:plan_id/members/:user_id
UpdateMemberRole(user, plan_id, user_id, role) ==
  /\ req' = Request("updateMemberRole", user, NoPlan, NoId,
                    [plan_id |-> plan_id, user_id |-> user_id, role |-> role])
  /\ LET gate == requirePlanAccess("owner", plan_id, NoPlan, NoPlan, user)
     IN IF gate # 0 THEN Reject(gate, "access")
        ELSE IF FindMember(plans[plan_id].members, user_id) = <<>>
          THEN Reject(404, "member")
        ELSE /\ plans' = [plans EXCEPT ![plan_id].members = WithRole(@, user_id, role)]
             /\ resp' = Reply(200, "", NoId)
             /\ UNCHANGED <<tasks, nextId, users, flight>>

\* The emails of the collection us.
Emails(us) == {us[u].email : u \in DOMAIN us}

\* User.findOne({ email }) on us, for an email that is there.
FindByEmail(us, email) == CHOOSE u \in DOMAIN us : us[u].email = email

\* us with a new user of this email.
WithUser(us, email, is_placeholder) ==
  [u \in DOMAIN us \cup {NewUserId(us)} |->
     IF u \in DOMAIN us THEN us[u]
     ELSE [email |-> email, is_placeholder |-> is_placeholder]]

\* POST /auth/register: the new user becomes the owner of the plan that
\* Plan.findOne({ name: "Demo Plan" }) returns, when there is one.
Register(email) ==
  /\ req' = Request("register", "", NoPlan, NoId, [email |-> email])
  /\ IF email \in Emails(users) THEN Reject(400, "exists")
     ELSE /\ Cardinality(DOMAIN users \ Users) < Len(FreshUserIds)
          /\ users' = WithUser(users, email, FALSE)
          /\ LET demo == {p \in DOMAIN plans : plans[p].name = "Demo Plan"}
             IN IF demo = {} THEN plans' = plans
                ELSE \E p \in demo :
                       plans' = [plans EXCEPT ![p].owner_id = NewUserId(users)]
          /\ resp' = Reply(201, "", NoId)
          /\ UNCHANGED <<tasks, nextId, flight>>

(***************************************************************************)
(* GET /plans/:plan_id/export and POST /plans/import.  A snapshot names    *)
(* members and assignees by email; optional numbers of a snapshot task are *)
(* sequences of length 0 or 1.                                             *)
(***************************************************************************)
\* A string that is no ObjectId, where a snapshot gives an id.
BadId == -1

\* The elements of seq at the indices in keep, in order.
Kept(seq, keep) ==
  LET F[i \in 0..Len(seq)] ==
        IF i = 0 THEN <<>>
        ELSE IF i \in keep THEN Append(F[i - 1], seq[i]) ELSE F[i - 1]
  IN F[Len(seq)]

\* Task.find({ plan_id }).sort({ order_index: 1 }), equal keys in _id order.
SortedTasks(ids) ==
  LET before(x, y) ==
        \/ tasks[x].order_index < tasks[y].order_index
        \/ tasks[x].order_index = tasks[y].order_index /\ x < y
      rank(x) == 1 + Cardinality({y \in ids : before(y, x)})
  IN [i \in 1..Cardinality(ids) |-> CHOOSE x \in ids : rank(x) = i]

\* One task of exportData.
ExportTask(task) ==
  [title |-> task.title,
   status |-> task.status,
   priority |-> task.priority,
   assignees |-> [i \in 1..Len(task.assignee_ids) |->
                    users[task.assignee_ids[i]].email],
   start_date |-> task.start_date,
   due_date |-> task.due_date,
   parent_id |-> task.parent_id,
   dependency_ids |-> task.dependency_ids,
   tags |-> task.tags,
   estimate_hours |-> task.estimate_hours,
   progress_pct |-> <<task.progress_pct>>,
   order_index |-> <<task.order_index>>]

\* exportData of the plan.
ExportData(plan_id) ==
  LET members == plans[plan_id].members
      sorted == SortedTasks(InPlan(plan_id))
  IN [plan |-> [name |-> plans[plan_id].name,
                members |-> [i \in 1..Len(members) |->
                               [email |-> users[members[i].user_id].email,
                                role |-> members[i].role]]],
      tasks |-> [i \in 1..Len(sorted) |-> ExportTask(tasks[sorted[i]])]]

\* The answer of an export: the snapshot.
ExportReply(data) == [code |-> 200, error |-> "", id |-> NoId, data |-> data]

Export(user, plan_id) ==
  /\ req' = Request("export", user, NoPlan, NoId, [plan_id |-> plan_id])
  /\ LET gate == requirePlanAccess("viewer", plan_id, NoPlan, NoPlan, user)
     IN IF gate # 0 THEN Reject(gate, "access")
        ELSE /\ resp' = ExportReply(ExportData(plan_id))
             /\ UNCHANGED <<tasks, nextId, plans, users, flight>>

\* The import schema accepts the task: a title, estimate_hours positive if any.
ImportItemOK(item) ==
  /\ item.title # ""
  /\ statusEnum(item.status)
  /\ item.priority = Absent \/ priorityEnum(item.priority)
  /\ Len(item.progress_pct) = 0 \/ progressRange(item.progress_pct[1])
  /\ Len(item.estimate_hours) = 0 \/ item.estimate_hours[1] > 0

\* The import schema accepts the snapshot.
importSchemaOK(snapshot) ==
  /\ snapshot.plan.name # ""
  /\ \A k \in 1..Len(snapshot.tasks) : ImportItemOK(snapshot.tasks[k])

\* us after the lookups and saves for these emails: a placeholder for every
\* email that had no user (the unique index on email admits one save each).
SaveAll(us, emails) ==
  LET G[i \in 0..Len(emails)] ==
        IF i = 0 THEN us
        ELSE IF emails[i] \in Emails(G[i - 1]) THEN G[i - 1]
        ELSE WithUser(G[i - 1], emails[i], TRUE)
  IN G[Len(emails)]

\* The lookups of one Promise.all run concurrently.  An entry is lost (its
\* promise yields null) when its findOne saw no user and its save then met the
\* user another entry of the same email had saved meanwhile.
LostOK(us, em, lost) ==
  /\ lost \subseteq DOMAIN em
  /\ \A i \in lost :
       /\ em[i] \notin Emails(us)
       /\ \E j \in DOMAIN em \ lost : em[j] = em[i]

\* The assignee entries of the snapshot tasks, by <<task, entry>>.
AssigneeEmails(items) ==
  LET pos == {q \in (1..Len(items)) \X (1..2) : q[2] <= Len(items[q[1]].assignees)}
  IN [q \in pos |-> items[q[1]].assignees[q[2]]]

\* The assignee emails of all snapshot tasks, task after task.
RECURSIVE AllAssignees(_)
AllAssignees(items) ==
  IF items = <<>> THEN <<>> ELSE Head(items).assignees \o AllAssignees(Tail(items))

\* Mutant: references that name no task of the new plan are dropped.
ImportRefs_dropped(item) == [parent_id |-> NoId, dependency_ids |-> <<>>]

\* parent_id and dependency_ids as new Task({...}) of the import gets them.
ImportRefs(item) ==
  [parent_id |-> item.parent_id, dependency_ids |-> item.dependency_ids]

\* order_index: taskData.order_index || index, after the schema default 0.
ImportOrderIndex(item, index) ==
  LET given == IF Len(item.order_index) = 0 THEN 0 ELSE item.order_index[1]
  IN IF given # 0 THEN given ELSE index

\* new Task({...}) of the import, as saved.
ImportTask(item, index, plan_id, user, assignee_ids) ==
  [plan_id |-> plan_id,
   status |-> item.status,
   order_index |-> ImportOrderIndex(item, index),
   parent_id |-> ImportRefs(item).parent_id,
   dependency_ids |-> ImportRefs(item).dependency_ids,
   start_date |-> item.start_date,
   due_date |-> item.due_date,
   title |-> item.title,
   priority |-> IF item.priority = Absent THEN "medium" ELSE item.priority,
   tags |-> item.tags,
   assignee_ids |-> assignee_ids,
   estimate_hours |-> item.estimate_hours,
   progress_pct |-> IF Len(item.progress_pct) = 0 THEN 0 ELSE item.progress_pct[1],
   created_by |-> user,
   updated_by |-> user]

\* task.save() casts the ids: it throws for a string that is no ObjectId.
Castable(item) ==
  /\ item.parent_id # BadId
  /\ BadId \notin Range(item.dependency_ids)

\* The answer of an import: the new plan and tasks_created.
ImportReply(plan_id, tasks_created) ==
  [code |-> 201, error |-> "", id |-> NoId, plan |-> plan_id,
   tasks_created |-> tasks_created]

Import(user, snapshot, lostMembers, lostAssignees) ==
  /\ req' = Request("import", user, NoPlan, NoId, snapshot)
  /\ IF validateRequest(importSchemaOK(snapshot)) # 0 THEN Reject(400, "snapshot")
     ELSE LET members == snapshot.plan.members
              items == snapshot.tasks
              memberEmails == [i \in 1..Len(members) |-> members[i].email]
              users1 == SaveAll(users, memberEmails)
              processedMembers ==
                Kept([i \in 1..Len(members) |->
                        [user_id |-> FindByEmail(users1, members[i].email),
                         role |-> members[i].role]],
                     (1..Len(members)) \ lostMembers)
              users2 == SaveAll(users1, AllAssignees(items))
              assigneeIds(k) ==
                Kept([a \in 1..Len(items[k].assignees) |->
                        FindByEmail(users2, items[k].assignees[a])],
                     {a \in 1..Len(items[k].assignees) : <<k, a>> \notin lostAssignees})
              saved == {k \in 1..Len(items) :
                          /\ Castable(items[k])
                          /\ TaskValidates(ImportTask(items[k], k - 1, NewPlanId,
                                                      user, <<>>))}
              idOf(k) == nextId + Cardinality({j \in saved : j < k})
              newIds == {idOf(k) : k \in saved}
          IN /\ LostOK(users, memberEmails, lostMembers)
             /\ LostOK(users1, AssigneeEmails(items), lostAssignees)
             /\ Cardinality(DOMAIN plans \ PlanIds) < Len(FreshPlanIds)
             /\ Cardinality(Emails(users) \cup Range(memberEmails)
                              \cup Range(AllAssignees(items)))
                  <= Cardinality(Users) + Len(FreshUserIds)
             /\ nextId + Cardinality(saved) - 1 <= MaxIds
             /\ plans' = [p \in DOMAIN plans \cup {NewPlanId} |->
                             IF p = NewPlanId
                               THEN [name |-> snapshot.plan.name,
                                     owner_id |-> user,
                                     members |-> processedMembers]
                               ELSE plans[p]]
             /\ users' = users2
             /\ tasks' = [t \in TaskIds \cup newIds |->
                            IF t \in TaskIds THEN tasks[t]
                            ELSE LET k == CHOOSE j \in saved : idOf(j) = t
                                 IN ImportTask(items[k], k - 1, NewPlanId, user,
                                               assigneeIds(k))]
             /\ nextId' = nextId + Cardinality(saved)
             /\ resp' = ImportReply(NewPlanId, Cardinality(saved))
             /\ UNCHANGED flight

Init ==
  /\ tasks = <<>>
  /\ nextId = 1
  /\ plans = InitPlans
  /\ req = Request("none", "", NoPlan, NoId, <<>>)
  /\ resp = Reply(0, "", NoId)
  /\ users = InitUsers
  /\ flight = <<>>

(***************************************************************************)
(* Request payloads.                                                       *)
(***************************************************************************)
TaskBody(plan_id, status, order_index, parent_id, dependency_ids, start, due) ==
  [plan_id |-> plan_id, status |-> status, order_index |-> order_index,
   parent_id |-> parent_id, dependency_ids |-> dependency_ids,
   start_date |-> start, due_date |-> due,
   title |-> "t", priority |-> Absent, tags |-> <<>>, assignee_ids |-> <<>>,
   estimate_hours |-> <<>>, progress_pct |-> <<>>]

PatchBody(status, order_index, parent_id, dependency_ids, start, due) ==
  [status |-> status, order_index |-> order_index, parent_id |-> parent_id,
   dependency_ids |-> dependency_ids, start_date |-> start, due_date |-> due,
   priority |-> Absent, progress_pct |-> <<>>]

BulkItem(_id, plan_id, parent_id, dependency_ids, start, due) ==
  [_id |-> _id, plan_id |-> plan_id, status |-> "todo", order_index |-> <<>>,
   parent_id |-> parent_id, dependency_ids |-> dependency_ids,
   start_date |-> start, due_date |-> due,
   title |-> "t", priority |-> Absent, tags |-> <<>>, assignee_ids |-> <<>>,
   estimate_hours |-> <<>>, progress_pct |-> <<>>]

\* Batches of one or two items.
Batches(items) == {<<a>> : a \in items} \cup {<<a, b>> : a \in items, b \in items}

\* Lists of ids without repetition, up to the number of ids.
RECURSIVE DistinctLists(_)
DistinctLists(n) ==
  IF n = 0 THEN {<<>>}
  ELSE LET shorter == DistinctLists(n - 1)
       IN shorter \cup {Append(l, i) : l \in {m \in shorter : Len(m) = n - 1},
                                        i \in Ids}

IdLists == {l \in DistinctLists(MaxIds) :
              \A i, j \in 1..Len(l) : i # j => l[i] # l[j]}


ReorderBodies(lists) == [task_ids : lists, plan_id : PlanIds]

IsDistinct(l) == \A i, j \in 1..Len(l) : i # j => l[i] # l[j]

(***************************************************************************)
(* Reordering: tasks are created in both plans with order_index 0 and      *)
(* reordered by an editor of both plans, with lists that also repeat an id *)
(* or name an id no task has.                                              *)
(***************************************************************************)
ReorderCreateBodies ==
  {TaskBody(p, "todo", <<0>>, NoId, <<>>, Absent, Absent) : p \in PlanIds}

ReorderLists == IdLists \cup {<<1, 1>>, <<1, GhostId>>}

NextReorder ==
  \/ \E b \in ReorderCreateBodies : Create("u2", NoPlan, b)
  \/ \E b \in ReorderBodies(ReorderLists) : Reorder("u2", NoPlan, b)

SpecReorder == Init /\ [][NextReorder]_vars

\* C4: after a successful Reorder(task_ids, plan) with pairwise distinct ids,
\* every task of the plan that occurs in task_ids has its 1-based position in
\* task_ids as order_index (so the listed tasks carry 1..N in the caller's
\* order when all of them belong to the plan).
C4_ReorderSetsPositions ==
  (req.op = "reorder" /\ resp.code = 200 /\ IsDistinct(req.body.task_ids))
    => \A i \in 1..Len(req.body.task_ids) :
         FindInPlan(req.body.task_ids[i], req.body.plan_id)
           => tasks[req.body.task_ids[i]].order_index = i

\* A reorder of two tasks of one plan, against their creation order, has acted.
C4_Witness ==
  /\ req.op = "reorder"
  /\ resp.code = 200
  /\ req.body.task_ids = <<2, 1>>
  /\ FindInPlan(1, req.body.plan_id)
  /\ FindInPlan(2, req.body.plan_id)

\* The fields of a task that a reorder may not touch.
SameButOrder(a, b) ==
  [a EXCEPT !.order_index = 0, !.updated_by = ""]
    = [b EXCEPT !.order_index = 0, !.updated_by = ""]

\* C5: Reorder(task_ids, plan) changes nothing but order_index and updated_by of
\* the tasks of the plan that are listed: no task appears or disappears, a task
\* that is not listed or is of another plan is unchanged, a listed task keeps
\* its status, parent_id, dependency_ids and plan_id, and ids that match no
\* task of the plan raise no error.
C5_ReorderFrame ==
  [][req'.op = "reorder"
       => /\ resp'.code = 200
          /\ DOMAIN tasks' = DOMAIN tasks
          /\ \A t \in TaskIds :
               /\ SameButOrder(tasks'[t], tasks[t])
               /\ (\/ t \notin Range(req'.body.task_ids)
                   \/ tasks[t].plan_id # req'.body.plan_id)
                    => tasks'[t] = tasks[t]]_vars

\* A reorder has acted that listed a task of its plan, a task of the other plan
\* and left out nothing else; the id list names both.
C5_Witness ==
  /\ req.op = "reorder"
  /\ resp.code = 200
  /\ req.body.task_ids = <<1, 2>>
  /\ FindInPlan(2, req.body.plan_id)
  /\ 1 \in TaskIds
  /\ tasks[1].plan_id # req.body.plan_id
  /\ tasks[1].order_index = 0
  /\ tasks[2].order_index = 2

(***************************************************************************)
(* Creation order: tasks are created with and without order_index into the *)
(* partitions of both plans, change status and are deleted.                *)
(***************************************************************************)
OrderStatuses == Statuses \ {"in_progress"}

OrderCreateBodies ==
  {TaskBody(p, s, o, NoId, <<>>, Absent, Absent) :
     p \in PlanIds, s \in OrderStatuses, o \in {<<>>, <<0>>, <<-1>>}}

OrderPatchBodies ==
  {PatchBody(<<s>>, <<>>, NoId, <<>>, Absent, Absent) : s \in OrderStatuses}

NextOrder ==
  \/ \E b \in OrderCreateBodies : Create("u2", NoPlan, b)
  \/ \E q \in PlanIds, id \in Ids, b \in OrderPatchBodies : Update("u2", q, id, b)
  \/ \E q \in PlanIds, id \in Ids : Delete("u2", q, id)

SpecOrder == Init /\ [][NextOrder]_vars

\* The order_index values of the (plan, status) partition.
PartitionOrders(plan_id, status) ==
  {tasks[t].order_index : t \in {u \in InPlan(plan_id) : tasks[u].status = status}}

\* C6: a Create without order_index saves the task with 1 + the largest
\* order_index of the tasks of the same plan and status, and with 1 when there
\* is none; a Create with order_index saves the value it was given.
C6_CreateOrderIndex ==
  [][(req'.op = "create" /\ resp'.code = 201)
       => LET b == req'.body
              orders == PartitionOrders(b.plan_id, b.status)
              top == CHOOSE x \in orders : \A y \in orders : y <= x
          IN tasks'[resp'.id].order_index =
               IF Len(b.order_index) = 1 THEN b.order_index[1]
               ELSE IF orders = {} THEN 1
               ELSE 1 + top]_vars

\* A task has been created without order_index into a partition that holds a
\* task, and a task has been created with order_index 0.
C6_Witness ==
  /\ req.op = "create"
  /\ resp.code = 201
  /\ resp.id = 2
  /\ Len(req.body.order_index) = 0
  /\ 1 \in TaskIds
  /\ tasks[1].plan_id = tasks[2].plan_id
  /\ tasks[1].status = tasks[2].status
  /\ tasks[1].order_index = 0
  /\ tasks[2].order_index = 1

(***************************************************************************)
(* Parents: tasks are created, re-parented, deleted, created in batches    *)
(* (whose items may carry their own _id) and reordered, in both plans, by  *)
(* an editor of both.                                                      *)
(***************************************************************************)
ParentRefs == Ids \cup {GhostId}

ParentCreateBodies ==
  {TaskBody(p, "todo", <<0>>, parent, <<>>, Absent, Absent) :
     p \in PlanIds, parent \in {NoId} \cup ParentRefs}

ParentPatchBodies ==
  {PatchBody(<<>>, <<>>, parent, <<>>, Absent, Absent) : parent \in ParentRefs}

\* Items without _id (with or without a parent) and parentless items with _id.
ParentBulkItems ==
  {BulkItem(NoId, "P", parent, <<>>, Absent, Absent) : parent \in {NoId} \cup Ids}
    \cup {BulkItem(_id, "P", NoId, <<>>, Absent, Absent) : _id \in Ids}

BulkBodies(items) == [tasks : Batches(items), plan_id : PlanIds]

\* Subtasks without batches: creation, re-parenting and deletion.
NextChildren ==
  \/ \E b \in ParentCreateBodies : Create("u2", NoPlan, b)
  \/ \E q \in PlanIds, id \in Ids, b \in ParentPatchBodies : Update("u2", q, id, b)
  \/ \E q \in PlanIds, id \in Ids : Delete("u2", q, id)

SpecChildren == Init /\ [][NextChildren]_vars

NextParent ==
  \/ NextChildren
  \/ \E b \in BulkBodies(ParentBulkItems) : BulkCreate("u2", NoPlan, b)
  \/ \E b \in ReorderBodies({<<1, 2>>}) : Reorder("u2", NoPlan, b)

SpecParent == Init /\ [][NextParent]_vars

\* C1: after any sequence of completed Create, Update, Delete, BulkCreate and
\* Reorder requests, the parent_id of every task that has one is the id of an
\* existing task of the same plan.
C1_ParentIntegrity ==
  \A t \in TaskIds :
    tasks[t].parent_id # NoId
      => /\ tasks[t].parent_id \in TaskIds
         /\ tasks[tasks[t].parent_id].plan_id = tasks[t].plan_id

\* The request passed the gate and addresses a task of the plan it names.
DeleteFindsTask ==
  /\ requirePlanAccess("editor", NoPlan, req'.query, NoPlan, req'.user) = 0
  /\ FindInPlan(req'.id, req'.query)

\* C3: a Delete(X) issued while some task has parent_id = X removes nothing and
\* is rejected, with the conflict error (400, subtasks) when it addresses X in
\* X's plan; and a task disappears in a Delete only when no task has it as
\* parent_id.
C3_DeleteGuardedByChildren ==
  [][req'.op = "delete"
       => /\ (\E t \in TaskIds : tasks[t].parent_id = req'.id)
               => /\ tasks' = tasks
                  /\ resp'.code # 200
                  /\ DeleteFindsTask => resp' = Reply(400, "subtasks", NoId)
          /\ \A x \in TaskIds \ DOMAIN tasks' :
               /\ x = req'.id
               /\ ~\E t \in TaskIds : tasks[t].parent_id = x]_vars

\* A Delete of a task that has a subtask has been rejected with the conflict
\* error, and both tasks are still there.
C3_Witness ==
  /\ req.op = "delete"
  /\ resp = Reply(400, "subtasks", NoId)
  /\ req.id \in TaskIds
  /\ \E t \in TaskIds \ {req.id} : tasks[t].parent_id = req.id

(***************************************************************************)
(* Dependencies: tasks are created with dependency_ids (one at a time and  *)
(* in batches), get new dependency_ids, are reordered and are deleted, in  *)
(* both plans, by an editor of both.                                       *)
(***************************************************************************)
DepLists == {<<>>, <<1>>, <<1, 2>>, <<GhostId>>}

DepsCreateBodies ==
  {TaskBody(p, "todo", <<0>>, NoId, deps, Absent, Absent) :
     p \in PlanIds, deps \in DepLists}

DepsPatchBodies ==
  {PatchBody(<<>>, <<>>, NoId, <<deps>>, Absent, Absent) : deps \in DepLists}

DepsBulkItems ==
  {BulkItem(NoId, "P", NoId, deps, Absent, Absent) : deps \in {<<>>, <<1>>}}

NextDeps ==
  \/ \E b \in DepsCreateBodies : Create("u2", NoPlan, b)
  \/ \E q \in PlanIds, id \in Ids, b \in DepsPatchBodies : Update("u2", q, id, b)
  \/ \E q \in PlanIds, id \in Ids : Delete("u2", q, id)
  \/ \E b \in BulkBodies(DepsBulkItems) : BulkCreate("u2", NoPlan, b)
  \/ \E b \in ReorderBodies({<<1, 2>>}) : Reorder("u2", NoPlan, b)

SpecDeps == Init /\ [][NextDeps]_vars

\* C2: after any sequence of completed Create, Update, Delete, BulkCreate and
\* Reorder requests, every id in the dependency_ids of every task is the id of
\* an existing task of the same plan.
C2_DependencyIntegrity ==
  \A t \in TaskIds :
    \A d \in Range(tasks[t].dependency_ids) :
      /\ d \in TaskIds
      /\ tasks[d].plan_id = tasks[t].plan_id

(***************************************************************************)
(* Batches: single tasks are created in both plans, and batches of one or  *)
(* two items are posted whose items may carry an _id, a parent_id and      *)
(* dependency_ids that name persisted tasks, items of the batch or nothing.*)
(***************************************************************************)
BatchItems ==
  {BulkItem(_id, "P", NoId, deps, Absent, Absent) :
     _id \in {NoId, 1}, deps \in {<<>>, <<1>>, <<1, GhostId>>}}
    \cup {BulkItem(NoId, "P", parent, <<>>, Absent, Absent) : parent \in {1, GhostId}}

BatchCreateBodies ==
  {TaskBody(p, "todo", <<0>>, NoId, <<>>, Absent, Absent) : p \in PlanIds}

NextBulk ==
  \/ \E b \in BatchCreateBodies : Create("u2", NoPlan, b)
  \/ \E b \in BulkBodies(BatchItems) : BulkCreate("u2", NoPlan, b)

SpecBulk == Init /\ [][NextBulk]_vars

\* The id names a persisted task of the plan or an item of the batch (the
\* referring item included).
Resolves(id, items, plan_id) ==
  \/ FindInPlan(id, plan_id)
  \/ \E j \in 1..Len(items) : items[j]._id = id

\* Some item of the batch has a parent_id or a dependency id that resolves to
\* nothing.
HasUnresolved(body) ==
  \E i \in 1..Len(body.tasks) :
    \/ /\ body.tasks[i].parent_id # NoId
       /\ ~Resolves(body.tasks[i].parent_id, body.tasks, body.plan_id)
    \/ \E d \in Range(body.tasks[i].dependency_ids) :
         ~Resolves(d, body.tasks, body.plan_id)

\* C7: a BulkCreate whose batch holds a parent_id or a dependency id that names
\* neither a persisted task of the plan nor an item of the batch is rejected,
\* and no task of the batch is persisted.
C7_BulkAllOrNothing ==
  [][(req'.op = "bulk" /\ HasUnresolved(req'.body))
       => /\ resp'.code # 201
          /\ tasks' = tasks]_vars

(***************************************************************************)
(* Dates: tasks of one plan are created with every combination of absent,  *)
(* valid and unparsable dates, get new dates by PATCH and are created in   *)
(* single-item batches.                                                    *)
(***************************************************************************)
ValidDates == {d \in DateStrings : IsValidDate(d)}

DatesCreateBodies ==
  {TaskBody("P", "todo", <<0>>, NoId, <<>>, start, due) :
     start \in DateStrings \cup {Absent}, due \in DateStrings \cup {Absent}}

DatesPatchBodies ==
  {PatchBody(<<>>, <<>>, NoId, <<>>, start, due) :
     start \in ValidDates \cup {Absent}, due \in ValidDates \cup {Absent}}

DatesBulkItems ==
  {BulkItem(NoId, "P", NoId, <<>>, start, due) :
     start \in ValidDates, due \in ValidDates}

DatesBulkBodies == [tasks : {<<a>> : a \in DatesBulkItems}, plan_id : {"P"}]

NextDates ==
  \/ \E b \in DatesCreateBodies : Create("u2", NoPlan, b)
  \/ \E id \in Ids, b \in DatesPatchBodies : Update("u2", "P", id, b)
  \/ \E b \in DatesBulkBodies : BulkCreate("u2", NoPlan, b)

SpecDates == Init /\ [][NextDates]_vars

\* Both dates are there, both parse, and due_date is before start_date.
DueBeforeStart(t) ==
  /\ t.start_date # Absent
  /\ t.due_date # Absent
  /\ IsValidDate(t.start_date)
  /\ IsValidDate(t.due_date)
  /\ DateValue(t.due_date) < DateValue(t.start_date)

\* C8: in every reachable state no task has both dates set with due_date before
\* start_date, and an Update whose result would have due_date before start_date
\* is rejected and changes nothing.
C8_DatesOrdered ==
  [][/\ \A t \in DOMAIN tasks' : ~DueBeforeStart(tasks'[t])
     /\ (/\ req'.op = "update"
         /\ req'.id \in TaskIds
         /\ DueBeforeStart(Merge(tasks[req'.id], req'.body, req'.user)))
          => /\ resp'.code = 400
             /\ tasks' = tasks]_vars

\* C9: a Create whose payload has both dates, with due_date earlier than
\* start_date, is rejected with the validation error on due_date, and the
\* collection is unchanged.
C9_CreateRejectsDueBeforeStart ==
  [][(req'.op = "create" /\ DueBeforeStart(req'.body))
       => /\ resp' = Reply(400, "due_date", NoId)
          /\ tasks' = tasks
          /\ nextId' = nextId]_vars

\* A Create with due_date before start_date has been rejected on due_date
\* while the collection holds a task.
C9_Witness ==
  /\ req.op = "create"
  /\ DueBeforeStart(req.body)
  /\ resp = Reply(400, "due_date", NoId)
  /\ TaskIds # {}

(***************************************************************************)
(* Access: the owner of plan P (a stranger to plan Q) and a viewer of plan *)
(* P (the owner of plan Q) send every kind of request, with the plan named *)
(* in the query string, in the body, or differently in both.               *)
(***************************************************************************)
AccessUsers == Users \ {"u2"}

QueryPlans == PlanIds \cup {NoPlan}

AccessCreateBodies ==
  {TaskBody(p, "todo", <<0>>, NoId, <<>>, Absent, Absent) : p \in PlanIds}

AccessPatchBodies == {PatchBody(<<>>, <<0>>, NoId, <<>>, Absent, Absent)}

AccessBulkBodies ==
  [tasks : {<<BulkItem(NoId, "P", NoId, <<>>, Absent, Absent)>>}, plan_id : PlanIds]

NextAccess ==
  \/ \E u \in AccessUsers, q \in QueryPlans, b \in AccessCreateBodies : Create(u, q, b)
  \/ \E u \in AccessUsers, q \in QueryPlans, id \in Ids, b \in AccessPatchBodies :
       Update(u, q, id, b)
  \/ \E u \in AccessUsers, q \in QueryPlans, id \in Ids : Delete(u, q, id)
  \/ \E u \in AccessUsers, q \in QueryPlans, b \in AccessBulkBodies :
       BulkCreate(u, q, b)
  \/ \E u \in AccessUsers, q \in QueryPlans, b \in ReorderBodies({<<2, 1>>}) :
       Reorder(u, q, b)

SpecAccess == Init /\ [][NextAccess]_vars

\* The tasks of a plan, by id.
PlanTasks(ts, plan_id) ==
  [t \in {u \in DOMAIN ts : ts[u].plan_id = plan_id} |-> ts[t]]

\* C10: the tasks of a plan change (a task is created, updated, deleted or
\* reordered) only in a request whose actor is owner or editor of that plan,
\* whatever plan ids the request carries in its query string and body.
C10_OnlyEditorsWrite ==
  [][\A p \in PlanIds :
       PlanTasks(tasks', p) # PlanTasks(tasks, p)
         => roleHierarchy(userRoleIn(plans[p], req'.user)) >= roleHierarchy("editor")]_vars

(***************************************************************************)
(* Races: two requests at a time are in flight; editors create tasks       *)
(* without order_index in both plans and the owner of a plan deletes it.   *)
(***************************************************************************)
RaceCreateBodies ==
  {TaskBody(p, "todo", <<>>, NoId, <<>>, Absent, Absent) : p \in PlanIds}

NextRace ==
  \/ \E s \in Slots, b \in RaceCreateBodies : CreateBegin(s, "u2", NoPlan, b)
  \/ \E s \in Slots : CreateSave(s)
  \/ \E s \in Slots, p \in PlanIds : DeletePlanAdmit(s, "u1", p)
  \/ \E s \in Slots : DeletePlanTasks(s)
  \/ \E s \in Slots : DeletePlanDoc(s)

SpecRace == Init /\ [][NextRace]_vars

\* The slot whose create is saved in this step, if any.
SavedSlots == {s \in PendingCreates : s \notin DOMAIN flight'}

\* C11: nothing serializes two Creates without order_index: the task a Create
\* saves carries 1 + the largest order_index the request read before, whatever
\* was saved since, so when another Create of the same partition has read the
\* same value and still waits, the two tasks get the same order_index.
C11_CreateRace ==
  [][\A s \in SavedSlots :
       /\ tasks'[resp'.id].order_index = flight[s].order_index
       /\ \A o \in PendingCreates \ {s} :
            (/\ flight[o].body.plan_id = flight[s].body.plan_id
             /\ flight[o].body.status = flight[s].body.status
             /\ flight[o].order_index = flight[s].order_index)
              => /\ o \in DOMAIN flight'
                 /\ flight'[o].order_index = tasks'[resp'.id].order_index]_vars

\* Two tasks created without order_index are saved in one partition with the
\* same order_index.
C11_Witness ==
  /\ flight = <<>>
  /\ {1, 2} \subseteq TaskIds
  /\ tasks[1].plan_id = tasks[2].plan_id
  /\ tasks[1].status = tasks[2].status
  /\ tasks[1].order_index = tasks[2].order_index

\* C16: once DeletePlan(P) and every request in flight with it have completed,
\* no task with plan_id = P exists.
C16_NoTaskOfDeletedPlan ==
  flight = <<>> => \A t \in TaskIds : tasks[t].plan_id \in DOMAIN plans

\* The request of this step names a plan that is not the plan of the task it
\* addresses.
OtherPlanNamed ==
  /\ req'.op \in {"update", "delete"}
  /\ req'.id \in TaskIds
  /\ req'.query # NoPlan
  /\ req'.query # tasks[req'.id].plan_id

\* C14: an Update or a Delete of a task, issued with the plan_id of another
\* plan, changes no task and does not succeed; from an actor who may edit the
\* plan it names it is answered as not found (404, task).
C14_WrongPlanNotFound ==
  [][OtherPlanNamed
       => /\ tasks' = tasks
          /\ resp'.code # 200
          /\ requirePlanAccess("editor", NoPlan, req'.query, NoPlan, req'.user) = 0
               => resp' = Reply(404, "task", NoId)]_vars

\* A Delete of a task of one plan, issued with the other plan's id, has been
\* answered as not found and the task is still there.
C14_Witness ==
  /\ req.op = "delete"
  /\ resp = Reply(404, "task", NoId)
  /\ req.id \in TaskIds
  /\ req.query \in PlanIds \ {tasks[req.id].plan_id}

(***************************************************************************)
(* Plan of a task: tasks are created in both plans, patched with bodies    *)
(* that carry a plan_id, reordered, deleted, and created again in batches  *)
(* under an _id of the client's choice.                                    *)
(***************************************************************************)
MovesCreateBodies ==
  {TaskBody(p, "todo", <<0>>, NoId, <<>>, Absent, Absent) : p \in PlanIds}

\* PATCH bodies: a status, with or without a plan_id next to it.
MovesPatchBodies ==
  {PatchBody(<<"done">>, <<>>, NoId, <<>>, Absent, Absent)}
    \cup {[plan_id |-> p, status |-> <<"done">>, order_index |-> <<>>,
           parent_id |-> NoId, dependency_ids |-> <<>>,
           start_date |-> Absent, due_date |-> Absent,
           priority |-> Absent, progress_pct |-> <<>>] : p \in PlanIds}

MovesBulkBodies ==
  [tasks : {<<BulkItem(1, "P", NoId, <<>>, Absent, Absent)>>}, plan_id : PlanIds]

NextMoves ==
  \/ \E b \in MovesCreateBodies : Create("u2", NoPlan, b)
  \/ \E q \in PlanIds, id \in Ids, b \in MovesPatchBodies : Update("u2", q, id, b)
  \/ \E q \in PlanIds, id \in Ids : Delete("u2", q, id)
  \/ \E b \in ReorderBodies({<<2, 1>>}) : Reorder("u2", NoPlan, b)
  \/ \E b \in MovesBulkBodies : BulkCreate("u2", NoPlan, b)

SpecMoves == Init /\ [][NextMoves]_vars

PlanActors == {"u1", "u2"}
MemberRoles == {"editor", "viewer"}

\* A snapshot written by hand: one member, no task.
HandSnapshot(email) ==
  [plan |-> [name |-> "Copy", members |-> <<[email |-> email, role |-> "viewer"]>>],
   tasks |-> <<>>]

\* A snapshot written by hand whose members list names one email twice.
TwinSnapshot(email) ==
  [plan |-> [name |-> "Twin",
             members |-> <<[email |-> email, role |-> "viewer"],
                           [email |-> email, role |-> "editor"]>>],
   tasks |-> <<>>]

PlansSnapshots ==
  {HandSnapshot("u2@x"), HandSnapshot("new@x"), TwinSnapshot("u3@x")}
    \cup (IF "data" \in DOMAIN resp THEN {resp.data} ELSE {})

NextPlans ==
  \/ \E user \in PlanActors : CreatePlan(user, "Beta")
  \/ \E user \in PlanActors, user_id \in {"u1", "u3", "zz"}, role \in MemberRoles :
       AddMember(user, "P", user_id, role)
  \/ \E user \in PlanActors, user_id \in {"u1", "u3"} :
       RemoveMember(user, "P", user_id)
  \/ \E user \in PlanActors, user_id \in {"u1", "u3"} :
       UpdateMemberRole(user, "P", user_id, "editor")
  \/ \E email \in {"u1@x", "reg@x", "new@x"} : Register(email)
  \/ \E user \in PlanActors : Export(user, "P")
  \/ \E user \in PlanActors, snapshot \in PlansSnapshots :
       Import(user, snapshot, {}, {})

SpecPlans == Init /\ [][NextPlans]_vars

\* C13: the owner of a plan is never one of its members, after plan
\* creation, the member operations, import and registration.
C13_OwnerNotMember ==
  \A p \in DOMAIN plans : FindMember(plans[p].members, plans[p].owner_id) = <<>>

(***************************************************************************)
(* Export and import of a plan with tasks.                                 *)
(***************************************************************************)
\* A snapshot task written by hand.
SnapItem(title, assignees, parent_id, order_index) ==
  [title |-> title, status |-> "todo", priority |-> Absent,
   assignees |-> assignees, start_date |-> Absent, due_date |-> Absent,
   parent_id |-> parent_id, dependency_ids |-> <<>>, tags |-> <<>>,
   estimate_hours |-> <<>>, progress_pct |-> <<>>, order_index |-> order_index]

\* A snapshot written by hand: these members, these tasks.
Snapshot(members, items) ==
  [plan |-> [name |-> "Copy", members |-> members], tasks |-> items]

Guest == [email |-> "g@x", role |-> "viewer"]

ImportSnapshots ==
  {Snapshot(<<>>, <<SnapItem("a", <<>>, GhostId, <<>>),
                    SnapItem("b", <<>>, NoId, <<0>>)>>),
   Snapshot(<<>>, <<SnapItem("a", <<"g@x">>, NoId, <<5>>),
                    SnapItem("b", <<"g@x">>, NoId, <<>>)>>),
   Snapshot(<<Guest, Guest>>, <<SnapItem("a", <<>>, BadId, <<>>)>>)}
    \cup (IF "data" \in DOMAIN resp THEN {resp.data} ELSE {})

ImportCreateBodies ==
  {[TaskBody("P", s, <<>>, NoId, <<>>, Absent, Absent) EXCEPT !.estimate_hours = e] :
     s \in OrderStatuses, e \in {<<>>, <<0>>, <<-1>>}}

NextImport ==
  \/ \E b \in ImportCreateBodies : Create("u1", NoPlan, b)
  \/ \E user \in {"u1", "zz"} : Export(user, "P")
  \/ \E snapshot \in ImportSnapshots :
       \E lostMembers \in SUBSET (1..2), lostAssignees \in SUBSET ((1..2) \X (1..1)) :
         Import("u1", snapshot, lostMembers, lostAssignees)

SpecImport == Init /\ [][NextImport]_vars

\* What the round trip keeps of a task.
Kept4(t) == <<t.title, t.status, t.priority, t.tags>>

\* C12: an Import of what Export answered for a plan succeeds and creates a
\* plan with the same name and the same number of members whose tasks match
\* the tasks of the exported plan one to one in title, status, priority and
\* tags (and so in number per status).
C12_ExportImportRoundTrip ==
  [][(req.op = "export" /\ resp.code = 200
        /\ req'.op = "import" /\ req'.body = resp.data)
       => /\ resp'.code = 201
          /\ LET old == req.body.plan_id
                 new == resp'.plan
                 oldIds == {t \in DOMAIN tasks : tasks[t].plan_id = old}
                 newIds == {t \in DOMAIN tasks' : tasks'[t].plan_id = new}
             IN /\ plans'[new].name = plans[old].name
                /\ Len(plans'[new].members) = Len(plans[old].members)
                /\ \A s \in Statuses :
                     Cardinality({t \in newIds : tasks'[t].status = s})
                       = Cardinality({t \in oldIds : tasks[t].status = s})
                /\ \E f \in [oldIds -> newIds] :
                     /\ \A t \in newIds : \E u \in oldIds : f[u] = t
                     /\ \A u, v \in oldIds : f[u] = f[v] => u = v
                     /\ \A u \in oldIds : Kept4(tasks'[f[u]]) = Kept4(tasks[u])]_vars

\* The tasks the step has added.
AddedIds == DOMAIN tasks' \ DOMAIN tasks

\* The import of the step has saved every task of its snapshot.
ImportedAll ==
  /\ req'.op = "import"
  /\ resp'.code = 201
  /\ Cardinality(AddedIds) = Len(req'.body.tasks)

\* The task saved for the k-th task of the snapshot, when all were saved.
ImportedAt(k) == tasks'[nextId + k - 1]

\* C17: every task an Import creates has the parent_id and dependency_ids
\* of a task of the snapshot, of the task at its position when all tasks
\* were saved; nothing is checked against the tasks of the new plan.
C17_ImportKeepsReferences ==
  [][(req'.op = "import" /\ resp'.code = 201)
       => LET items == req'.body.tasks
          IN /\ \A t \in AddedIds : \E k \in 1..Len(items) :
                  /\ tasks'[t].title = items[k].title
                  /\ tasks'[t].parent_id = items[k].parent_id
                  /\ tasks'[t].dependency_ids = items[k].dependency_ids
             /\ ImportedAll =>
                  \A k \in 1..Len(items) :
                    /\ ImportedAt(k).parent_id = items[k].parent_id
                    /\ ImportedAt(k).dependency_ids = items[k].dependency_ids]_vars

\* An imported task whose parent_id names no task of its plan.
C17_Witness ==
  /\ req.op = "import"
  /\ resp.code = 201
  /\ \E t \in InPlan(resp.plan) :
       /\ tasks[t].parent_id # NoId
       /\ tasks[t].parent_id \notin InPlan(resp.plan)

\* C18: a task created by Import has the order_index its snapshot task
\* supplies, 0 included, and its position in the batch when the snapshot
\* supplies none.
C18_ImportOrderIndex ==
  [][ImportedAll
       => \A k \in 1..Len(req'.body.tasks) :
            LET item == req'.body.tasks[k]
            IN ImportedAt(k).order_index =
                 IF Len(item.order_index) = 1 THEN item.order_index[1] ELSE k - 1]_vars

\* The emails the snapshot names, as member or as assignee.
SnapshotEmails(snapshot) ==
  {snapshot.plan.members[i].email : i \in 1..Len(snapshot.plan.members)}
    \cup UNION {Range(snapshot.tasks[k].assignees) : k \in 1..Len(snapshot.tasks)}

\* C19: after an Import there is exactly one user for every email the
\* snapshot names, and every imported task has among its assignees the user
\* of each assignee email of its snapshot task.
C19_ImportUsers ==
  [][(req'.op = "import" /\ resp'.code = 201)
       => /\ \A e \in SnapshotEmails(req'.body) :
               Cardinality({u \in DOMAIN users' : users'[u].email = e}) = 1
          /\ ImportedAll =>
               \A k \in 1..Len(req'.body.tasks) :
                 \A e \in Range(req'.body.tasks[k].assignees) :
                   \E u \in Range(ImportedAt(k).assignee_ids) : users'[u].email = e]_vars

\* C20: an Import answers success only when it has created every member and
\* every task of the snapshot.
C20_ImportAllOrError ==
  [][(req'.op = "import" /\ resp'.code = 201)
       => /\ Len(plans'[resp'.plan].members) = Len(req'.body.plan.members)
          /\ Cardinality(AddedIds) = Len(req'.body.tasks)]_vars

\* The placeholder users with this email.
PlaceholdersOf(email) ==
  {u \in DOMAIN users : users[u].email = email /\ users[u].is_placeholder}

\* C21: a registration with the email of a placeholder user succeeds and
\* leaves that user a regular account, its placeholder flag cleared.
C21_PlaceholderClaimed ==
  [][(req'.op = "register" /\ PlaceholdersOf(req'.body.email) # {})
       => /\ resp'.code = 201
          /\ \A u \in PlaceholdersOf(req'.body.email) :
               /\ u \in DOMAIN users'
               /\ ~users'[u].is_placeholder]_vars

(***************************************************************************)
(* Status changes: tasks of plan P in the three statuses, moved by PATCH.  *)
(***************************************************************************)
StatusCreateBodies ==
  {TaskBody("P", s, <<>>, NoId, <<>>, Absent, Absent) : s \in Statuses}

\* PATCH bodies: a status, with or without an order_index next to it.
StatusPatchBodies ==
  {PatchBody(<<s>>, o, NoId, <<>>, Absent, Absent) :
     s \in Statuses, o \in {<<>>, <<7>>}}

NextStatus ==
  \/ \E b \in StatusCreateBodies : Create("u2", NoPlan, b)
  \/ \E id \in Ids, b \in StatusPatchBodies : Update("u2", "P", id, b)
  \/ \E id \in Ids : Delete("u2", "P", id)

SpecStatus == Init /\ [][NextStatus]_vars

\* The step is an Update that has changed the status of its task.
StatusChanged ==
  /\ req'.op = "update"
  /\ resp'.code = 200
  /\ tasks'[req'.id].status # tasks[req'.id].status

\* C22, as stated: an Update that changes the status of a task leaves the
\* order_index of every task unchanged.
C22_StatusChangeKeepsOrder ==
  [][StatusChanged
       => \A t \in DOMAIN tasks : tasks'[t].order_index = tasks[t].order_index]_vars

\* C22, amended: an Update that changes the status of a task leaves the
\* order_index of every other task unchanged, and that of the task itself
\* unless the body carries an order_index, which is then written as given.
C22_StatusChangeNoRenumber ==
  [][StatusChanged
       => /\ DOMAIN tasks' = DOMAIN tasks
          /\ \A t \in DOMAIN tasks \ {req'.id} :
               tasks'[t].order_index = tasks[t].order_index
          /\ tasks'[req'.id].order_index =
               IF Len(req'.body.order_index) = 0
                 THEN tasks[req'.id].order_index
                 ELSE req'.body.order_index[1]]_vars

\* A task moved to "done" without an order_index of its own stands there with
\* the order_index another task of that partition has.
C22_Witness ==
  /\ req.op = "update"
  /\ resp.code = 200
  /\ req.body.status = <<"done">>
  /\ Len(req.body.order_index) = 0
  /\ \E t \in InPlan("P") \ {req.id} :
       /\ tasks[t].status = "done"
       /\ tasks[req.id].status = "done"
       /\ tasks[t].order_index = tasks[req.id].order_index

\* C23: an Update by an editor that names an existing task with its plan and
\* carries one of the three statuses is accepted and leaves the task with
\* that status, whatever status it had; and a task ceases to exist only in a
\* step that is a Delete of that task.
C23_FreeTransitions ==
  [][/\ (req'.op = "update" /\ req'.id \in DOMAIN tasks
          /\ tasks[req'.id].plan_id = req'.query
          /\ Len(req'.body.status) = 1 /\ req'.body.status[1] \in Statuses)
         => /\ resp'.code = 200
            /\ req'.id \in DOMAIN tasks'
            /\ tasks'[req'.id].status = req'.body.status[1]
     /\ \A t \in DOMAIN tasks \ DOMAIN tasks' :
          req'.op = "delete" /\ req'.id = t /\ resp'.code = 200]_vars

\* An Update to "todo" has been accepted and two tasks stand in "todo" with
\* the same order_index: one of them came there from another status.
C23_Witness ==
  /\ req.op = "update"
  /\ resp.code = 200
  /\ req.body.status = <<"todo">>
  /\ Len(req.body.order_index) = 0
  /\ req.id \in DOMAIN tasks
  /\ tasks[req.id].status = "todo"
  /\ \E t \in InPlan("P") \ {req.id} :
       /\ tasks[t].status = "todo"
       /\ tasks[t].order_index = tasks[req.id].order_index

(***************************************************************************)
(* Listings of plan P for the board.                                       *)
(***************************************************************************)
ListCreateBodies ==
  {TaskBody("P", s, o, NoId, <<>>, Absent, Absent) :
     s \in OrderStatuses, o \in {<<>>, <<5>>}}

\* page and limit: all on one page, or the second page of pages of one.
ListPages == {<<1, 50>>, <<2, 1>>}

ListOrders == {"asc", "desc"}
ListSorts == {"order_index", "status"}

NextList ==
  \/ \E b \in ListCreateBodies : Create("u2", NoPlan, b)
  \/ \E q \in {"P", NoPlan}, sort \in ListSorts, order \in ListOrders,
        pl \in ListPages :
       \E natural \in NaturalOrders(InPlan(q)) :
         List("u3", q, sort, order, pl[1], pl[2], natural)

SpecList == Init /\ [][NextList]_vars

\* C24: a listing with sort=order_index gives tasks of the plan, none twice,
\* all of them on a first page that is long enough, with status ascending
\* and, within one status, order_index ascending, or descending when
\* order=desc.
C24_ListingOrder ==
  (req.op = "list" /\ resp.code = 200 /\ req.body.sort = "order_index")
    => LET l == resp.tasks
       IN /\ Range(l) \subseteq InPlan(req.query)
          /\ IsDistinct(l)
          /\ (req.body.page = 1 /\ req.body.limit >= Cardinality(InPlan(req.query)))
               => Range(l) = InPlan(req.query)
          /\ \A i \in 1..(Len(l) - 1) :
               LET a == tasks[l[i]]
                   b == tasks[l[i + 1]]
               IN \/ StatusRank(a.status) < StatusRank(b.status)
                  \/ /\ a.status = b.status
                     /\ IF req.body.order = "desc"
                          THEN a.order_index >= b.order_index
                          ELSE a.order_index <= b.order_index

\* A descending listing of two tasks of different status that differ in
\* order_index the other way round: status decides, ascending.
C24_Witness ==
  /\ req.op = "list"
  /\ resp.code = 200
  /\ req.body.sort = "order_index"
  /\ req.body.order = "desc"
  /\ Len(resp.tasks) = 2
  /\ tasks[resp.tasks[1]].status # tasks[resp.tasks[2]].status
  /\ tasks[resp.tasks[1]].order_index < tasks[resp.tasks[2]].order_index

(***************************************************************************)
(* Field values: requests that carry a status, a priority or a progress_pct *)
(* inside and outside what the schemas allow.                              *)
(***************************************************************************)
FieldsCreateBodies ==
  LET b == TaskBody("P", "todo", <<>>, NoId, <<>>, Absent, Absent)
  IN {[b EXCEPT !.priority = "high", !.progress_pct = <<100>>],
      [b EXCEPT !.status = "archived"],
      [b EXCEPT !.priority = "asap"],
      [b EXCEPT !.progress_pct = <<150>>]}

FieldsPatchBodies ==
  LET b == PatchBody(<<>>, <<>>, NoId, <<>>, Absent, Absent)
  IN {[b EXCEPT !.status = <<"done">>, !.progress_pct = <<0>>],
      [b EXCEPT !.status = <<"archived">>],
      [b EXCEPT !.priority = "asap"],
      [b EXCEPT !.progress_pct = <<101>>],
      [b EXCEPT !.progress_pct = <<-1>>]}

FieldsBulkItems ==
  LET b == BulkItem(NoId, "P", NoId, <<>>, Absent, Absent)
  IN {[b EXCEPT !.priority = "urgent"],
      [b EXCEPT !.status = "archived"],
      [b EXCEPT !.progress_pct = <<150>>]}

FieldsBulkBodies == [tasks : {<<a>> : a \in FieldsBulkItems}, plan_id : {"P"}]

FieldsSnapshots ==
  LET b == SnapItem("a", <<>>, NoId, <<>>)
  IN {Snapshot(<<>>, <<c>>) :
        c \in {[b EXCEPT !.priority = "low"],
               [b EXCEPT !.status = "archived"],
               [b EXCEPT !.priority = "asap"],
               [b EXCEPT !.progress_pct = <<150>>]}}

NextFields ==
  \/ \E b \in FieldsCreateBodies : Create("u2", NoPlan, b)
  \/ \E id \in Ids, b \in FieldsPatchBodies : Update("u2", "P", id, b)
  \/ \E b \in FieldsBulkBodies : BulkCreate("u2", NoPlan, b)
  \/ \E b \in ReorderBodies({<<2, 1>>}) : Reorder("u2", NoPlan, b)
  \/ \E snapshot \in FieldsSnapshots : Import("u2", snapshot, {}, {})

SpecFields == Init /\ [][NextFields]_vars

\* The task or snapshot item carries a value outside the enums or the range.
BadItem(d) ==
  \/ d.status \notin {"todo", "in_progress", "done"}
  \/ d.priority # Absent /\ d.priority \notin {"low", "medium", "high", "urgent"}
  \/ Len(d.progress_pct) = 1 /\ ~(0 <= d.progress_pct[1] /\ d.progress_pct[1] <= 100)

\* The request of the step asks for such a value to be saved.
BadFieldsAsked ==
  CASE req'.op = "create" -> BadItem(req'.body)
    [] req'.op = "update" ->
         BadItem([req'.body EXCEPT
                    !.status = IF Len(@) = 0 THEN "todo" ELSE @[1]])
    [] req'.op = "bulk" ->
         \E i \in 1..Len(req'.body.tasks) : BadItem(req'.body.tasks[i])
    [] req'.op = "import" ->
         \E i \in 1..Len(req'.body.tasks) : BadItem(req'.body.tasks[i])
    [] OTHER -> FALSE

\* C25: after every step each persisted task has a status of the three, a
\* priority of the four and a progress_pct from 0 to 100; a request that asks
\* for another value saves nothing and is not answered with 200.
C25_FieldsInRange ==
  [][/\ \A t \in DOMAIN tasks' :
          /\ tasks'[t].status \in {"todo", "in_progress", "done"}
          /\ tasks'[t].priority \in {"low", "medium", "high", "urgent"}
          /\ 0 <= tasks'[t].progress_pct /\ tasks'[t].progress_pct <= 100
     /\ BadFieldsAsked => (tasks' = tasks /\ resp'.code # 200)]_vars

\* An Update asking for progress_pct 101 was refused for a task that stands
\* at 100.
C25_Witness ==
  /\ req.op = "update"
  /\ req.body.progress_pct = <<101>>
  /\ resp.code = 400
  /\ req.id \in DOMAIN tasks
  /\ tasks[req.id].progress_pct = 100

(***************************************************************************)
(* A Create that names a parent, interleaved with the Delete of that       *)
(* parent: each request is a sequence of storage calls.                    *)
(***************************************************************************)
RaceParentBodies ==
  {TaskBody("P", "todo", <<0>>, parent, <<>>, Absent, Absent) : parent \in {NoId, 1}}

NextRaceParent ==
  \/ \E s \in Slots, b \in RaceParentBodies : CreateBegin(s, "u2", NoPlan, b)
  \/ \E s \in Slots : CreateSave(s)
  \/ \E s \in Slots, id \in Ids : DeleteBegin(s, "u2", "P", id)
  \/ \E s \in Slots : DeleteLand(s)

SpecRaceParent == Init /\ [][NextRaceParent]_vars

\* C26: also when a Create that sets parent_id = A runs interleaved with
\* Delete(A), no persisted task has a parent_id that names a deleted task.
C26_ParentIntegrityInterleaved ==
  \A t \in TaskIds :
    (tasks[t].parent_id # NoId /\ tasks[t].parent_id < nextId)
      => tasks[t].parent_id \in TaskIds

(***************************************************************************)
(* Subtasks across plans: tasks of plan P, imports that name them as       *)
(* parent, and deletions in plan P.                                        *)
(***************************************************************************)
CrossCreateBodies ==
  {TaskBody("P", s, <<0>>, parent, <<>>, Absent, Absent) :
     s \in OrderStatuses, parent \in {NoId, 1}}

CrossSnapshots ==
  {Snapshot(<<>>, <<SnapItem("a", <<>>, parent, <<>>)>>) : parent \in {NoId, 1}}
    \cup (IF "data" \in DOMAIN resp THEN {resp.data} ELSE {})

NextCross ==
  \/ \E b \in CrossCreateBodies : Create("u1", NoPlan, b)
  \/ Export("u1", "P")
  \/ \E snapshot \in CrossSnapshots : Import("u1", snapshot, {}, {})
  \/ \E id \in Ids : Delete("u1", "P", id)

SpecCross == Init /\ [][NextCross]_vars

\* C27: a Delete of a task of plan P, by an editor of P, is accepted exactly
\* when no task of plan P has it as parent_id: tasks of other plans do not
\* decide.
C27_DeleteDependsOnOwnPlan ==
  [][(req'.op = "delete" /\ req'.id \in DOMAIN tasks
        /\ tasks[req'.id].plan_id = req'.query)
       => (resp'.code = 200
             <=> ~\E t \in InPlan(req'.query) : tasks[t].parent_id = req'.id)]_vars

\* C28: no task is its own parent, after any sequence of Create, Update and
\* BulkCreate requests.
C28_NoSelfParent ==
  \A t \in TaskIds : tasks[t].parent_id # t

\* C29: no user appears more than once in the members list of a plan.
C29_MembersDistinct ==
  \A p \in DOMAIN plans :
    \A i, j \in 1..Len(plans[p].members) :
      plans[p].members[i].user_id = plans[p].members[j].user_id => i = j

\* C30: the owner of a plan never changes after the plan is created.
C30_OwnerNeverChanges ==
  [][\A p \in DOMAIN plans \cap DOMAIN plans' :
       plans'[p].owner_id = plans[p].owner_id]_vars

====
